---- MODULE Spec2Model ----
(***************************************************************************)
(* houserat: presence daemon.  The model covers the event loop of          *)
(* HouseRat (main.rs), its online table and keepalive probing, and the     *)
(* notification cooldown gate in its two revisions (metadata.rs,           *)
(* hysteresis.rs), and the pure functions of config.rs, network.rs and     *)
(* mac_address.rs, each applied to inputs drawn from bounded sets.         *)
(***************************************************************************)
EXTENDS Integers, Sequences, FiniteSets, TLC

\* ------------------------------------------------------------------ bounds
\* Timestamps given to should_notify alone are drawn from 0..MaxTime.
MaxTime == 4
\* chrono::Local::now() as read by the event loop is drawn from 0..MaxNow.
MaxNow == 1
\* A configured cooldown is drawn from 0..MaxCooldown.
MaxCooldown == 2
\* Times of day are half-hour slots 0..MaxSlot (slot 47 is 23:30).
MaxSlot == 47
\* A configuration file declares at most MaxUsers users.
MaxUsers == 2

\* ------------------------------------------------------- program constants
ALLOWED_PACKETS_LOST == 3

\* MACs of the configured rule set (keys of HouseRat::rules).
Known == {"m1", "m2"}
\* MACs seen on the wire that no rule names.
Unknown == {"u1"}
MACs == Known \cup Unknown
IPs == {"ip1", "ip2"}
\* The answers the resolver produces: the A record of each device's hostname.
Resolved == {<< "m1", "ip1" >>, << "m2", "ip2" >>}
Times == 0..MaxTime
Nows == 0..MaxNow

\* Option<T>: None is the empty sequence, Some(x) the one-element sequence.
None == << >>
Some(x) == << x >>
IsSome(o) == Len(o) = 1
Unwrap(o) == o[1]

Cooldowns == {None} \cup {Some(c) : c \in 0..MaxCooldown}
\* The cooldowns the event loop runs under: none, or the longest one that the
\* loop's clock readings can both fall short of and meet.
LoopCooldowns == {None, Some(MaxNow)}
\* The quiet periods the event loop runs under: none, or the one that holds
\* the loop's latest clock reading and no earlier one.
LoopQuiet == {None, Some([start |-> MaxNow, end |-> MaxNow])}
\* The configurations the event loop runs under: a cooldown, a quiet period
\* or neither.
LoopConfigs == {c \in LoopCooldowns \X LoopQuiet : c[1] = None \/ c[2] = None}

VARIABLES
    online,         \* HouseRat::online : MAC -> Tracking {ip, outstanding}
    last_notified,  \* rules[mac].last_notified : Option<timestamp>
    cooldown,       \* HouseRat::cooldown : Option<duration>
    resolve_r,      \* the resolver receiver of run(): "Some" or "None"
    pc,             \* position of run(): "loop" or "exited"
    ev,             \* the event the loop handled last
    gate,           \* notify() calls made by the last handler: [mac, status]
    sent,           \* messages the last handler handed to the transport
    undelivered,    \* MACs of those for which send() returned an error
    probes,         \* ARP requests the last handler asked the socket to send
    sinceAlive,     \* history: ticks handled since the MAC's last Alive
    okTicks,        \* history: the same, while every probe to it was sent
    aliveSince,     \* history: an Alive of the MAC was handled since its
                    \* last Left (since the start, before any Left)
    impl,           \* which gate revision a gate-only run exercises
    history,        \* Hysteresis::Enabled.history : user -> timestamp
    call,           \* the last should_notify call: device, now, result
    fired,          \* history: time of the last call that returned true
    lastNow,        \* history: `now` of the device's previous call
    mono,           \* history: the device's timestamps never decreased
    quiet_period,   \* HouseRat::quiet_period : Option<Period>
    fn,             \* the pure function a unit run applies ("-" otherwise)
    input,          \* the arguments it is applied to
    output          \* Option of what it returned

vars == << online, last_notified, cooldown, resolve_r, pc, ev, gate, sent,
           undelivered, probes, sinceAlive, okTicks, aliveSince, impl,
           history, call,
           fired, lastNow, mono, quiet_period, fn, input, output >>

trackerVars == << online, resolve_r, pc, ev, gate, sent, undelivered,
                  probes, sinceAlive, okTicks, aliveSince >>
gateVars == << impl, history, call, fired, lastNow, mono >>
unitVars == << fn, input, output >>

\* ------------------------------------------------------- Metadata (gate)
\* Metadata::should_notify: the result and the new last_notified.
should_notify_always_records(last, cd, now) ==
    [result |-> TRUE, last |-> Some(now)]

should_notify_strict(last, cd, now) ==
    IF ~IsSome(cd) THEN [result |-> TRUE, last |-> last]
    ELSE IF IsSome(last)
         THEN IF now - Unwrap(last) > Unwrap(cd)
              THEN [result |-> TRUE, last |-> Some(now)]
              ELSE [result |-> FALSE, last |-> last]
         ELSE [result |-> TRUE, last |-> Some(now)]

should_notify_records_on_suppress(last, cd, now) ==
    IF ~IsSome(cd) THEN [result |-> TRUE, last |-> last]
    ELSE IF IsSome(last)
         THEN [result |-> now - Unwrap(last) >= Unwrap(cd), last |-> Some(now)]
         ELSE [result |-> TRUE, last |-> Some(now)]

should_notify(last, cd, now) ==
    IF ~IsSome(cd) THEN [result |-> TRUE, last |-> last]
    ELSE IF IsSome(last)
         THEN LET elapsed == now - Unwrap(last) IN
              IF elapsed >= Unwrap(cd)
              THEN [result |-> TRUE, last |-> Some(now)]
              ELSE [result |-> FALSE, last |-> last]
         ELSE [result |-> TRUE, last |-> Some(now)]

\* ------------------------------------------------------- Period (config)
Slots == 0..MaxSlot
Period(start, end) == [start |-> start, end |-> end]

is_between_no_wrap(period, time) ==
    time >= period.start /\ time <= period.end

\* Period::is_between.
is_between(period, time) ==
    IF period.start <= period.end
    THEN time >= period.start /\ time <= period.end
    ELSE time >= period.start \/ time <= period.end

\* ------------------------------------------------------------ HouseRat
NoEvent == [type |-> "none", mac |-> "-"]

\* The time of day of a clock reading (now.naive_local().time()), in slots.
TimeOfDay(now) == now % (MaxSlot + 1)

\* The is_quiet of notify(): false without a quiet period.
is_quiet(now) ==
    IF IsSome(quiet_period)
    THEN is_between(Unwrap(quiet_period), TimeOfDay(now))
    ELSE FALSE

Message(mac, status, silent) ==
    [mac |-> mac, status |-> status, silent |-> silent]

notify_quiet_suppresses(ln, mac, status, now) ==
    IF mac \notin Known
    THEN [ln |-> ln, gate |-> {[mac |-> mac, status |-> status]}, sent |-> {}]
    ELSE LET r == should_notify(ln[mac], cooldown, now) IN
         [ln   |-> [ln EXCEPT ![mac] = r.last],
          gate |-> {[mac |-> mac, status |-> status]},
          sent |-> IF r.result /\ ~is_quiet(now)
                   THEN {Message(mac, status, FALSE)} ELSE {}]

\* HouseRat::notify for one MAC: what it adds to the gate log, to the
\* transport log, and the new last_notified of that MAC's metadata.  A
\* message that the gate lets through is handed to the transport once, with
\* is_quiet as its silent flag; what send() returns is only logged and
\* changes nothing.
notify(ln, mac, status, now) ==
    IF mac \notin Known
    THEN [ln |-> ln, gate |-> {[mac |-> mac, status |-> status]}, sent |-> {}]
    ELSE LET r == should_notify(ln[mac], cooldown, now) IN
         [ln   |-> [ln EXCEPT ![mac] = r.last],
          gate |-> {[mac |-> mac, status |-> status]},
          sent |-> IF r.result
                   THEN {Message(mac, status, is_quiet(now))} ELSE {}]

\* The tick histories are kept as far as the loss threshold looks: sinceAlive
\* counts up to "more than ALLOWED_PACKETS_LOST"; okTicks counts one further,
\* and stands at Later also before any Alive and once a send has failed.
Over == ALLOWED_PACKETS_LOST + 1
Later == ALLOWED_PACKETS_LOST + 2
Bump(n, cap) == IF n < cap THEN n + 1 ELSE cap

Insert(f, k, v) == [x \in DOMAIN f \cup {k} |-> IF x = k THEN v ELSE f[x]]

notify_all_always_sends(ln, macs, status, nowf) ==
    [ln   |-> ln,
     gate |-> {[mac |-> m, status |-> status] : m \in macs},
     sent |-> {Message(m, status, is_quiet(nowf[m])) : m \in macs}]

RECURSIVE notify_all(_, _, _, _)
\* handle_clock's second loop: notify(mac, status) for every mac of `macs`,
\* each call reading the clock for itself (nowf[mac]).
notify_all(ln, macs, status, nowf) ==
    IF macs = {} THEN [ln |-> ln, gate |-> {}, sent |-> {}]
    ELSE LET m == CHOOSE x \in macs : TRUE
             n == notify(ln, m, status, nowf[m])
             rest == notify_all(n.ln, macs \ {m}, status, nowf)
         IN [ln   |-> rest.ln,
             gate |-> n.gate \cup rest.gate,
             sent |-> n.sent \cup rest.sent]

connected_effect_always_notifies(mac, now) ==
    notify(last_notified, mac, "Arrived", now)

\* Event::Connected(mac): what the handler does with the gate.
connected_effect(mac, now) ==
    IF mac \in DOMAIN online
    THEN [ln |-> last_notified, gate |-> {}, sent |-> {}]
    ELSE notify(last_notified, mac, "Arrived", now)

handle_connected_inserts(mac) ==
    /\ pc = "loop"
    /\ \E now \in Nows :
         LET n == connected_effect(mac, now) IN
         /\ last_notified' = n.ln
         /\ gate' = n.gate
         /\ sent' = n.sent
         /\ undelivered' \in SUBSET {s.mac : s \in n.sent}
    /\ online' = IF mac \in Known /\ mac \notin DOMAIN online
                 THEN Insert(online, mac, [ip |-> "ip1", outstanding |-> 0])
                 ELSE online
    /\ ev' = [type |-> "Connected", mac |-> mac]
    /\ probes' = {}
    /\ UNCHANGED << cooldown, resolve_r, pc, sinceAlive, okTicks, aliveSince >>
    /\ UNCHANGED << gateVars, quiet_period, unitVars >>

handle_connected(mac) ==
    /\ pc = "loop"
    /\ \E now \in Nows :
         LET n == connected_effect(mac, now) IN
         /\ last_notified' = n.ln
         /\ gate' = n.gate
         /\ sent' = n.sent
         /\ undelivered' \in SUBSET {s.mac : s \in n.sent}
    /\ ev' = [type |-> "Connected", mac |-> mac]
    /\ probes' = {}
    /\ UNCHANGED << online, cooldown, resolve_r, pc, sinceAlive, okTicks,
                    aliveSince >>
    /\ UNCHANGED << gateVars, quiet_period, unitVars >>

alive_table_no_reset(mac, ip) ==
    IF mac \in Known /\ mac \notin DOMAIN online
    THEN Insert(online, mac, [ip |-> ip, outstanding |-> 0])
    ELSE online

alive_table_any_mac(mac, ip) ==
    IF mac \in DOMAIN online
    THEN [online EXCEPT ![mac].outstanding = 0]
    ELSE Insert(online, mac, [ip |-> ip, outstanding |-> 0])

\* Event::Alive { mac, ip }: the online table the handler leaves.
alive_table(mac, ip) ==
    LET o1 == IF mac \in Known
              THEN IF mac \in DOMAIN online
                   THEN [online EXCEPT ![mac].outstanding = 0]
                   ELSE Insert(online, mac, [ip |-> ip, outstanding |-> 0])
              ELSE online
    IN IF mac \in DOMAIN o1 THEN [o1 EXCEPT ![mac].outstanding = 0] ELSE o1

handle_alive_notifies(mac, ip) ==
    /\ pc = "loop"
    /\ online' = alive_table(mac, ip)
    /\ ev' = [type |-> "Alive", mac |-> mac]
    /\ \E now \in Nows :
         LET n == connected_effect(mac, now) IN
         /\ last_notified' = n.ln
         /\ gate' = n.gate
         /\ sent' = n.sent
         /\ undelivered' \in SUBSET {s.mac : s \in n.sent}
    /\ probes' = {}
    /\ sinceAlive' = [m \in Known |-> IF m = mac THEN 0 ELSE sinceAlive[m]]
    /\ okTicks' = [m \in Known |-> IF m = mac THEN 0 ELSE okTicks[m]]
    /\ aliveSince' = [m \in Known |-> m = mac \/ aliveSince[m]]
    /\ UNCHANGED << cooldown, resolve_r, pc >>
    /\ UNCHANGED << gateVars, quiet_period, unitVars >>

handle_alive(mac, ip) ==
    /\ pc = "loop"
    /\ online' = alive_table(mac, ip)
    /\ ev' = [type |-> "Alive", mac |-> mac]
    /\ gate' = {}
    /\ sent' = {}
    /\ undelivered' = {}
    /\ probes' = {}
    /\ sinceAlive' = [m \in Known |-> IF m = mac THEN 0 ELSE sinceAlive[m]]
    /\ okTicks' = [m \in Known |-> IF m = mac THEN 0 ELSE okTicks[m]]
    /\ aliveSince' = [m \in Known |-> m = mac \/ aliveSince[m]]
    /\ UNCHANGED << last_notified, cooldown, resolve_r, pc >>
    /\ UNCHANGED << gateVars, quiet_period, unitVars >>

handle_ignored ==
    /\ pc = "loop"
    /\ ev' = [type |-> "Ignored", mac |-> "-"]
    /\ gate' = {}
    /\ sent' = {}
    /\ undelivered' = {}
    /\ probes' = {}
    /\ UNCHANGED << online, last_notified, cooldown, resolve_r, pc,
                    sinceAlive, okTicks, aliveSince >>
    /\ UNCHANGED << gateVars, quiet_period, unitVars >>

clock_probed_early == {m \in DOMAIN online :
                          online[m].outstanding < ALLOWED_PACKETS_LOST - 1}

clock_probed_always == DOMAIN online

\* handle_clock's first loop: the entries that get a keepalive this tick.
clock_probed == {m \in DOMAIN online :
                    online[m].outstanding < ALLOWED_PACKETS_LOST}

after_send_never_counts(tracking, ok) == tracking

\* The outstanding counter of a probed entry after the send returned.
after_send(tracking, ok) ==
    IF ok THEN [tracking EXCEPT !.outstanding = @ + 1] ELSE tracking

\* A tick that calls notify(mac, Left) for every known MAC it does not probe,
\* whether or not the MAC has an entry.
handle_clock_left_for_absent ==
    /\ pc = "loop"
    /\ LET probed == clock_probed
           left == Known \ probed
       IN \E failed \in SUBSET probed, nowf \in [left -> Nows] :
            LET n == notify_all(last_notified, left, "Left", nowf) IN
            /\ probes' = {[kind |-> "keepalive", mac |-> m, ip |-> online[m].ip,
                            outstanding |-> online[m].outstanding,
                            ok |-> m \notin failed] : m \in probed}
            /\ online' = [m \in probed |-> after_send(online[m], m \notin failed)]
            /\ last_notified' = n.ln
            /\ gate' = n.gate
            /\ sent' = n.sent
            /\ undelivered' \in SUBSET {s.mac : s \in n.sent}
            /\ okTicks' = [m \in Known |-> IF m \in failed THEN Later
                                           ELSE Bump(okTicks[m], Later)]
            /\ aliveSince' =
                   [m \in Known |->
                       /\ aliveSince[m]
                       /\ [mac |-> m, status |-> "Left"] \notin n.gate]
    /\ sinceAlive' = [m \in Known |-> Bump(sinceAlive[m], Over)]
    /\ ev' = [type |-> "Clock", mac |-> "-"]
    /\ UNCHANGED << cooldown, resolve_r, pc >>
    /\ UNCHANGED << gateVars, quiet_period, unitVars >>

handle_clock ==
    /\ pc = "loop"
    /\ LET probed == clock_probed
           left == DOMAIN online \ probed
       IN \E failed \in SUBSET probed, nowf \in [left -> Nows] :
            LET n == notify_all(last_notified, left, "Left", nowf) IN
            /\ probes' = {[kind |-> "keepalive", mac |-> m, ip |-> online[m].ip,
                            outstanding |-> online[m].outstanding,
                            ok |-> m \notin failed] : m \in probed}
            /\ online' = [m \in probed |-> after_send(online[m], m \notin failed)]
            /\ last_notified' = n.ln
            /\ gate' = n.gate
            /\ sent' = n.sent
            /\ undelivered' \in SUBSET {s.mac : s \in n.sent}
            /\ okTicks' = [m \in Known |-> IF m \in failed THEN Later
                                           ELSE Bump(okTicks[m], Later)]
            /\ aliveSince' =
                   [m \in Known |->
                       /\ aliveSince[m]
                       /\ [mac |-> m, status |-> "Left"] \notin n.gate]
    /\ sinceAlive' = [m \in Known |-> Bump(sinceAlive[m], Over)]
    /\ ev' = [type |-> "Clock", mac |-> "-"]
    /\ UNCHANGED << cooldown, resolve_r, pc >>
    /\ UNCHANGED << gateVars, quiet_period, unitVars >>

handle_resolve_tracks(mac, ip) ==
    /\ pc = "loop"
    /\ resolve_r = "Some"
    /\ \E ok \in BOOLEAN :
         probes' = {[kind |-> "resolve", mac |-> mac, ip |-> ip, ok |-> ok]}
    /\ online' = IF mac \in DOMAIN online THEN online
                 ELSE Insert(online, mac, [ip |-> ip, outstanding |-> 0])
    /\ ev' = [type |-> "Resolved", mac |-> mac]
    /\ gate' = {}
    /\ sent' = {}
    /\ undelivered' = {}
    /\ UNCHANGED << last_notified, cooldown, resolve_r, pc, sinceAlive,
                    okTicks, aliveSince >>
    /\ UNCHANGED << gateVars, quiet_period, unitVars >>

handle_resolve(mac, ip) ==
    /\ pc = "loop"
    /\ resolve_r = "Some"
    /\ \E ok \in BOOLEAN :
         probes' = {[kind |-> "resolve", mac |-> mac, ip |-> ip, ok |-> ok]}
    /\ ev' = [type |-> "Resolved", mac |-> mac]
    /\ gate' = {}
    /\ sent' = {}
    /\ undelivered' = {}
    /\ UNCHANGED << online, last_notified, cooldown, resolve_r, pc,
                    sinceAlive, okTicks, aliveSince >>
    /\ UNCHANGED << gateVars, quiet_period, unitVars >>

resolve_closed_is_error ==
    /\ pc = "loop"
    /\ resolve_r = "Some"
    /\ resolve_r' = "None"
    /\ pc' = "exited"
    /\ ev' = [type |-> "ResolveClosed", mac |-> "-"]
    /\ gate' = {}
    /\ sent' = {}
    /\ undelivered' = {}
    /\ probes' = {}
    /\ UNCHANGED << online, last_notified, cooldown, sinceAlive, okTicks,
                    aliveSince >>
    /\ UNCHANGED << gateVars, quiet_period, unitVars >>

resolve_closed_stays_selected ==
    /\ pc = "loop"
    /\ resolve_r = "Some"
    /\ ev' = [type |-> "ResolveClosed", mac |-> "-"]
    /\ gate' = {}
    /\ sent' = {}
    /\ undelivered' = {}
    /\ probes' = {}
    /\ UNCHANGED << online, last_notified, cooldown, resolve_r, pc,
                    sinceAlive, okTicks, aliveSince >>
    /\ UNCHANGED << gateVars, quiet_period, unitVars >>

\* recv(resolve_r) -> Err(_): the resolver channel is closed.
resolve_closed ==
    /\ pc = "loop"
    /\ resolve_r = "Some"
    /\ resolve_r' = "None"
    /\ ev' = [type |-> "ResolveClosed", mac |-> "-"]
    /\ gate' = {}
    /\ sent' = {}
    /\ undelivered' = {}
    /\ probes' = {}
    /\ UNCHANGED << online, last_notified, cooldown, pc, sinceAlive, okTicks,
                    aliveSince >>
    /\ UNCHANGED << gateVars, quiet_period, unitVars >>

\* recv(cap_r) -> Err: `event?` returns the error out of run(), main prints
\* it and exits with status 1; the HouseRat value is dropped with the process.
capture_closed ==
    /\ pc = "loop"
    /\ pc' = "exited"
    /\ ev' = [type |-> "CaptureClosed", mac |-> "-"]
    /\ online' = << >>
    /\ last_notified' = [m \in Known |-> None]
    /\ resolve_r' = "None"
    /\ gate' = {}
    /\ sent' = {}
    /\ undelivered' = {}
    /\ probes' = {}
    /\ sinceAlive' = [m \in Known |-> Over]
    /\ okTicks' = [m \in Known |-> Later]
    /\ aliveSince' = [m \in Known |-> FALSE]
    /\ UNCHANGED cooldown
    /\ UNCHANGED << gateVars, quiet_period, unitVars >>

NoCall == [dev |-> "-", now |-> 0, result |-> FALSE, before |-> None,
           since |-> None]

UnitIdle ==
    /\ fn = "-"
    /\ input = << >>
    /\ output = None

GateIdle ==
    /\ impl = "metadata"
    /\ history = << >>
    /\ call = NoCall
    /\ fired = [m \in Known |-> None]
    /\ lastNow = [m \in Known |-> None]
    /\ mono = [m \in Known |-> TRUE]

\* HouseRat::new: the state run() starts from.
Init ==
    /\ online = << >>
    /\ last_notified = [m \in Known |-> None]
    /\ cooldown \in LoopCooldowns
    /\ resolve_r = "Some"
    /\ pc = "loop"
    /\ ev = NoEvent
    /\ gate = {}
    /\ sent = {}
    /\ undelivered = {}
    /\ probes = {}
    /\ sinceAlive = [m \in Known |-> Over]
    /\ okTicks = [m \in Known |-> Later]
    /\ aliveSince = [m \in Known |-> FALSE]
    /\ quiet_period \in LoopQuiet
    /\ << cooldown, quiet_period >> \in LoopConfigs
    /\ GateIdle
    /\ UnitIdle

\* One iteration of the select! loop of run().
Next ==
    \/ \E mac \in MACs : handle_connected(mac)
    \/ \E mac \in MACs, ip \in IPs : handle_alive(mac, ip)
    \/ handle_ignored
    \/ handle_clock
    \/ \E r \in Resolved : handle_resolve(r[1], r[2])
    \/ resolve_closed
    \/ capture_closed

Spec == Init /\ [][Next]_vars

\* ------------------------------------------------- the gate on its own
history_entry_any_key(h, user) ==
    IF DOMAIN h # {} THEN Some(h[CHOOSE u \in DOMAIN h : TRUE]) ELSE None

\* Hysteresis: history.entry(user) as an Option of the stored timestamp.
history_entry(h, user) ==
    IF user \in DOMAIN h THEN Some(h[user]) ELSE None

\* Hysteresis::should_notify: the result and the new history.  The value is
\* Disabled when it was built from no cooldown.
hysteresis_should_notify(h, cd, now, user) ==
    IF ~IsSome(cd) THEN [result |-> TRUE, history |-> h]
    ELSE LET e == history_entry(h, user) IN
         IF IsSome(e)
         THEN LET elapsed == now - Unwrap(e) IN
              IF elapsed >= Unwrap(cd)
              THEN [result |-> TRUE, history |-> [h EXCEPT ![user] = now]]
              ELSE [result |-> FALSE, history |-> h]
         ELSE [result |-> TRUE, history |-> Insert(h, user, now)]

\* The timestamp the gate under test holds for a device.
Recorded(d) ==
    IF impl = "metadata" THEN last_notified[d] ELSE history_entry(history, d)

\* History of the calls made so far, kept beside either revision.
Observe(d, now, result) ==
    /\ call' = [dev |-> d, now |-> now, result |-> result,
                before |-> Recorded(d), since |-> fired[d]]
    /\ fired' = IF result THEN [fired EXCEPT ![d] = Some(now)] ELSE fired
    /\ mono' = [mono EXCEPT ![d] =
                   @ /\ (IsSome(lastNow[d]) => now >= Unwrap(lastNow[d]))]
    /\ lastNow' = [lastNow EXCEPT ![d] = Some(now)]

\* notify()'s lookup of the device's metadata and its should_notify call.
metadata_call(d, now) ==
    /\ impl = "metadata"
    /\ LET r == should_notify(last_notified[d], cooldown, now) IN
       /\ last_notified' = [last_notified EXCEPT ![d] = r.last]
       /\ Observe(d, now, r.result)
    /\ UNCHANGED << cooldown, impl, history >>
    /\ UNCHANGED << trackerVars, quiet_period, unitVars >>

hysteresis_call(d, now) ==
    /\ impl = "hysteresis"
    /\ LET r == hysteresis_should_notify(history, cooldown, now, d) IN
       /\ history' = r.history
       /\ Observe(d, now, r.result)
    /\ UNCHANGED << cooldown, impl, last_notified >>
    /\ UNCHANGED << trackerVars, quiet_period, unitVars >>

InitGate ==
    /\ online = << >>
    /\ last_notified = [m \in Known |-> None]
    /\ cooldown \in Cooldowns
    /\ resolve_r = "None"
    /\ pc = "gate"
    /\ ev = NoEvent
    /\ gate = {}
    /\ sent = {}
    /\ undelivered = {}
    /\ probes = {}
    /\ sinceAlive = [m \in Known |-> Over]
    /\ okTicks = [m \in Known |-> Later]
    /\ aliveSince = [m \in Known |-> FALSE]
    /\ impl \in {"metadata", "hysteresis"}
    /\ history = << >>
    /\ call = NoCall
    /\ fired = [m \in Known |-> None]
    /\ lastNow = [m \in Known |-> None]
    /\ mono = [m \in Known |-> TRUE]
    /\ quiet_period = None
    /\ UnitIdle

NextGate ==
    \/ \E d \in Known, now \in Times : metadata_call(d, now)
    \/ \E d \in Known, now \in Times : hysteresis_call(d, now)

SpecGate == InitGate /\ [][NextGate]_vars

\* ------------------------------------------------- claims on the tracker
Left(m) == [mac |-> m, status |-> "Left"]
Arrived(m) == [mac |-> m, status |-> "Arrived"]
Probed(m) == \E p \in probes : p.kind = "keepalive" /\ p.mac = m

\* C1 as stated: after an Alive for a known MAC and three ticks on which
\* every probe to it was sent, the third tick has removed the MAC, invoked
\* the gate with Left and sent it no probe.
C1_EvictedOnThirdTick ==
    \A m \in Known :
        (ev.type = "Clock" /\ okTicks[m] = ALLOWED_PACKETS_LOST) =>
            /\ m \notin DOMAIN online
            /\ Left(m) \in gate
            /\ ~Probed(m)

\* C1 as amended: the first three ticks after the Alive each send the MAC a
\* probe and leave it online with outstanding equal to the number of ticks;
\* the fourth tick removes it, invokes the gate with Left and sends it no
\* probe.
C1_EvictedOnFourthTick ==
    \A m \in Known :
        ev.type = "Clock" =>
            /\ okTicks[m] \in 1..ALLOWED_PACKETS_LOST =>
                 /\ m \in DOMAIN online
                 /\ online[m].outstanding = okTicks[m]
                 /\ Probed(m)
                 /\ Left(m) \notin gate
            /\ okTicks[m] = ALLOWED_PACKETS_LOST + 1 =>
                 /\ m \notin DOMAIN online
                 /\ Left(m) \in gate
                 /\ ~Probed(m)

\* The fourth tick after an Alive, every probe having been sent.
C1_Witness ==
    \E m \in Known :
        /\ ev.type = "Clock"
        /\ okTicks[m] = ALLOWED_PACKETS_LOST + 1
        /\ Left(m) \in gate

\* C2 as stated: every entry a tick probes has its outstanding counter one
\* above the value it had before the send, whether the send succeeded or not.
C2_FailedSendCounts ==
    ev.type = "Clock" =>
        \A p \in probes :
            /\ p.mac \in DOMAIN online
            /\ online[p.mac].outstanding = p.outstanding + 1

C3_AliveResets ==
    /\ (ev.type = "Alive" /\ ev.mac \in Known) =>
          /\ ev.mac \in DOMAIN online
          /\ online[ev.mac].outstanding = 0
    /\ \A g \in gate :
          g.status = "Left" =>
              /\ g.mac \in Known
              /\ sinceAlive[g.mac] > ALLOWED_PACKETS_LOST

C3_Frame ==
    ev'.type = "Alive" =>
        \A x \in MACs \ {ev'.mac} :
            /\ x \in DOMAIN online' <=> x \in DOMAIN online
            /\ x \in DOMAIN online => online'[x] = online[x]

\* C3: an Alive for a MAC of the rule set leaves that MAC online with
\* outstanding 0 and leaves every other MAC's entry (present or absent) as it
\* was; and a tick evicts a MAC only when at least ALLOWED_PACKETS_LOST ticks
\* were handled before it since the last Alive for that MAC.
C3_AliveKeepsOnline == []C3_AliveResets /\ [][C3_Frame]_vars

\* An Alive for an entry with probes outstanding, beside another entry that
\* has probes outstanding.
C3_Witness ==
    \E m, o \in Known :
        /\ m # o /\ ev.type = "Alive" /\ ev.mac = m
        /\ m \in DOMAIN online /\ online[m].outstanding = 0
        /\ o \in DOMAIN online /\ online[o].outstanding = 2

\* C4 as stated: an Alive(mac, ip) for a MAC that has an online entry leaves
\* that entry holding ip.
C4_AliveUpdatesIp ==
    [][\A m \in Known, ip \in IPs :
          (m \in DOMAIN online /\ handle_alive(m, ip)) =>
              online'[m].ip = ip]_vars

C5_State ==
    /\ DOMAIN online \subseteq Known
    /\ DOMAIN last_notified = Known
    /\ \A s \in sent : s.mac \in Known
    /\ \A p \in probes : p.mac \in Known
    /\ ev.mac \in Unknown => sent = {}

C5_Step ==
    ev'.mac \in Unknown =>
        /\ last_notified' = last_notified
        /\ online' = online

\* C5: the online table only ever holds MACs of the rule set; no message is
\* handed to the transport, no probe is sent and no last_notified is changed
\* on behalf of a MAC outside it.
C5_UnknownMacs == []C5_State /\ [][C5_Step]_vars

\* A Connected for an unknown MAC reached notify() and was dropped there.
C5_Witness ==
    /\ ev.type = "Connected" /\ ev.mac \in Unknown
    /\ gate = {Arrived(ev.mac)}
    /\ sent = {}
    /\ DOMAIN online # {}

C6_State ==
    ev.type = "Connected" =>
        /\ gate = {Arrived(ev.mac)} <=> ev.mac \notin DOMAIN online
        /\ ev.mac \in DOMAIN online => (gate = {} /\ sent = {})

C6_Step ==
    (ev'.type = "Connected" /\ ev'.mac \in DOMAIN online) =>
        UNCHANGED << online, last_notified, cooldown, resolve_r, pc >>

\* C6: a Connected(mac) invokes the gate, with Arrived, exactly when mac has
\* no online entry; when it has one, the handler invokes no gate, sends no
\* message and changes no state.
C6_ConnectedGate == []C6_State /\ [][C6_Step]_vars

\* A Connected for a MAC that is online.
C6_Witness ==
    /\ ev.type = "Connected"
    /\ ev.mac \in DOMAIN online
    /\ gate = {}

\* C15: the loop ends only by a receive on the closed capture channel (run
\* returns the receive error and main exits with status 1, pc = "exited"); a
\* failed probe send, a failed transport send, a resolution that produced
\* nothing and the closing of the resolver channel all leave it running.
C15_OnlyCaptureCloseExits ==
    /\ pc \in {"loop", "exited"}
    /\ pc = "exited" <=> ev.type = "CaptureClosed"
    /\ (\E p \in probes : ~p.ok) => pc = "loop"
    /\ undelivered # {} => pc = "loop"
    /\ ev.type = "ResolveClosed" => (pc = "loop" /\ resolve_r = "None")

\* The capture channel was found closed and the loop has ended.
C15_Witness ==
    /\ pc = "exited"
    /\ ev.type = "CaptureClosed"

\* C18: a tick handles every entry the table held when it began, once and
\* before any other event: an entry with outstanding < ALLOWED_PACKETS_LOST
\* gets exactly one probe, to its own MAC and stored IP, stays in the table
\* and has outstanding + 1 when the send succeeded; an entry with
\* outstanding = ALLOWED_PACKETS_LOST is removed and the gate is invoked with
\* Left for it; no entry is both probed and evicted, and nothing that was not
\* in the table is probed, evicted or added.
C18_Step ==
    ev'.type = "Clock" =>
        /\ \A m \in DOMAIN online :
              LET mine == {p \in probes' : p.mac = m} IN
              /\ online[m].outstanding < ALLOWED_PACKETS_LOST =>
                    /\ Cardinality(mine) = 1
                    /\ \A p \in mine :
                          /\ p.kind = "keepalive"
                          /\ p.ip = online[m].ip
                          /\ p.ok => online'[m].outstanding
                                         = online[m].outstanding + 1
                    /\ m \in DOMAIN online'
                    /\ online'[m].ip = online[m].ip
                    /\ Left(m) \notin gate'
              /\ online[m].outstanding = ALLOWED_PACKETS_LOST =>
                    /\ mine = {}
                    /\ m \notin DOMAIN online'
                    /\ Left(m) \in gate'
              /\ online[m].outstanding <= ALLOWED_PACKETS_LOST
        /\ \A p \in probes' : p.mac \in DOMAIN online
        /\ \A g \in gate' : g.status = "Left" /\ g.mac \in DOMAIN online
        /\ DOMAIN online' \subseteq DOMAIN online

C18_TickHandlesEachEntryOnce == [][C18_Step]_vars

\* One tick has probed one entry successfully and evicted another.
C18_Witness ==
    /\ ev.type = "Clock"
    /\ \E p \in probes, g \in gate :
          /\ p.ok
          /\ p.mac # g.mac
          /\ p.mac \in DOMAIN online
          /\ g.mac \notin DOMAIN online

\* C19 as stated: every entry of the online table has outstanding in
\* 0..ALLOWED_PACKETS_LOST - 1.
C19_BelowThreshold ==
    \A m \in DOMAIN online :
        online[m].outstanding \in 0..(ALLOWED_PACKETS_LOST - 1)

\* C19 as amended: every entry of the online table has outstanding in
\* 0..ALLOWED_PACKETS_LOST.
C19_UpToThreshold ==
    \A m \in DOMAIN online :
        online[m].outstanding \in 0..ALLOWED_PACKETS_LOST

\* An entry stands at the threshold between two ticks.
C19_Witness ==
    \E m \in DOMAIN online : online[m].outstanding = ALLOWED_PACKETS_LOST

\* The event loop with a clock whose ticks keep being handled: select! takes
\* the tick channel whenever it is ready, and it is ready again every
\* TICK_SECS seconds.
SpecLive == Spec /\ WF_vars(handle_clock)

\* C20: while ticks keep being handled, a MAC in the online table is
\* eventually removed from it with the gate invoked with Left, unless an
\* Alive for it is handled first (or the loop has ended), also when every
\* probe sent to it fails.
C20_EventuallyLeft ==
    \A m \in Known :
        (m \in DOMAIN online) ~>
            \/ m \notin DOMAIN online /\ Left(m) \in gate
            \/ ev.type = "Alive" /\ ev.mac = m
            \/ pc = "exited"

\* The event loop while one known device produces DHCP traffic only: no
\* Alive event carries its MAC.
DhcpOnly == "m1"

NextDhcpOnly ==
    \/ \E mac \in MACs : handle_connected(mac)
    \/ \E mac \in MACs \ {DhcpOnly}, ip \in IPs : handle_alive(mac, ip)
    \/ handle_ignored
    \/ handle_clock
    \/ \E r \in Resolved : handle_resolve(r[1], r[2])
    \/ resolve_closed
    \/ capture_closed

SpecDhcpOnly == Init /\ [][NextDhcpOnly]_vars

C21_State ==
    /\ DhcpOnly \notin DOMAIN online
    /\ Left(DhcpOnly) \notin gate
    /\ (ev.type = "Connected" /\ ev.mac = DhcpOnly) =>
          gate = {Arrived(DhcpOnly)}

C21_Step ==
    /\ ev'.type = "Connected" => online' = online
    /\ (DOMAIN online' \ DOMAIN online # {}) =>
          (ev'.type = "Alive" /\ DOMAIN online' \ DOMAIN online = {ev'.mac})

\* C21: handling a Connected event leaves the online table as it was, and
\* only an Alive event adds an entry (its own MAC's); so a known device that
\* produces only Connected events is never online, never has the gate
\* invoked with Left, and has the gate invoked with Arrived by every one of
\* its Connected events.
C21_ConnectedNeverTracks == []C21_State /\ [][C21_Step]_vars

\* A later Connected of the device was held back by the cooldown, another
\* device being online.
C21_Witness ==
    /\ ev.type = "Connected" /\ ev.mac = DhcpOnly
    /\ gate = {Arrived(DhcpOnly)}
    /\ sent = {}
    /\ IsSome(last_notified[DhcpOnly])
    /\ DOMAIN online # {}

C22_State ==
    /\ gate # {} =>
          \/ ev.type = "Connected" /\ gate = {Arrived(ev.mac)}
          \/ ev.type = "Clock" /\ \A g \in gate : g.status = "Left"
    /\ \A s \in sent : [mac |-> s.mac, status |-> s.status] \in gate
    /\ undelivered \subseteq {s.mac : s \in sent}
    /\ ev.type \in {"Alive", "Ignored", "Resolved"} =>
          (gate = {} /\ sent = {})

C22_Step ==
    /\ ev'.type \in {"Alive", "Ignored", "Resolved"} =>
          last_notified' = last_notified
    /\ (last_notified' # last_notified /\ pc' = "loop") => gate' # {}
    /\ (ev'.type = "Connected" /\ gate' # {}) => ev'.mac \notin DOMAIN online
    /\ ev'.type = "Clock" =>
          \A g \in gate' :
              g.mac \in DOMAIN online /\ g.mac \notin DOMAIN online'

\* C22: the gate, and with it the transport, is invoked only by a Connected
\* for a MAC that has no online entry (with Arrived) and by a tick for an
\* entry it evicts (with Left); handling an Alive (creating or refreshing an
\* entry), an Ignored or a resolver result invokes no gate, sends no message
\* and changes no last_notified.
C22_GateCallers == []C22_State /\ [][C22_Step]_vars

\* An Alive created an entry for a device that a cooldown holds a
\* last_notified for, and no gate was invoked.
C22_Witness ==
    /\ ev.type = "Alive"
    /\ ev.mac \in DOMAIN online
    /\ online[ev.mac].outstanding = 0
    /\ IsSome(last_notified[ev.mac])
    /\ gate = {}
    /\ sent = {}

C23_State ==
    /\ ev.type = "ResolveClosed" => (pc = "loop" /\ resolve_r = "None")
    /\ (resolve_r = "None" /\ pc = "loop") =>
          /\ ENABLED handle_clock
          /\ ENABLED handle_ignored
          /\ \A mac \in MACs :
                /\ ENABLED handle_connected(mac)
                /\ \A ip \in IPs : ENABLED handle_alive(mac, ip)
          /\ ~ENABLED resolve_closed
          /\ \A r \in Resolved : ~ENABLED handle_resolve(r[1], r[2])

C23_Step ==
    resolve_r = "None" =>
        /\ resolve_r' = "None"
        /\ ev'.type \notin {"Resolved", "ResolveClosed"}

\* C23: once a receive on the resolver channel has found it closed, the
\* resolver source is never selected again (no resolver result and no second
\* closure is handled), the loop goes on and capture events and ticks stay
\* enabled as before; the closure does not end the loop.
C23_ResolverClosedForGood == []C23_State /\ [][C23_Step]_vars

\* After the resolver channel was closed, a tick has sent a keepalive.
C23_Witness ==
    /\ resolve_r = "None"
    /\ pc = "loop"
    /\ ev.type = "Clock"
    /\ probes # {}

C24_State ==
    ev.type = "Resolved" =>
        /\ Cardinality(probes) = 1
        /\ \A p \in probes :
              /\ p.kind = "resolve"
              /\ p.mac = ev.mac
              /\ << p.mac, p.ip >> \in Resolved
        /\ gate = {}
        /\ sent = {}

C24_Step ==
    /\ ev'.type = "Resolved" =>
          UNCHANGED << online, last_notified, cooldown, resolve_r, pc >>
    /\ (DOMAIN online' \ DOMAIN online # {}) => ev'.type = "Alive"

\* C24: a resolver result (mac, ip) makes the loop send exactly one probe, to
\* (mac, ip), whether or not the send succeeds, and changes nothing else: no
\* online entry is created or modified and no gate is invoked; an entry for
\* the device appears only when an Alive is handled.
C24_ResolveOnlyProbes == []C24_State /\ [][C24_Step]_vars

\* The probe for a resolver result could not be sent; the device is not
\* online.
C24_Witness ==
    /\ ev.type = "Resolved"
    /\ ev.mac \notin DOMAIN online
    /\ \E p \in probes : ~p.ok /\ p.mac = ev.mac

\* Every clock reading of the loop falls short of the cooldown since the
\* device's last notification.
WithinCooldown(m) ==
    /\ IsSome(cooldown)
    /\ IsSome(last_notified[m])
    /\ \A now \in Nows : now - Unwrap(last_notified[m]) < Unwrap(cooldown)

C25_State ==
    \A s \in sent :
        s.status = "Left" =>
            /\ ev.type = "Clock"
            /\ Left(s.mac) \in gate
            /\ s.mac \notin DOMAIN online

C25_Step ==
    ev'.type = "Clock" =>
        \A m \in DOMAIN online :
            LET mine == {s \in sent' : s.mac = m} IN
            /\ Left(m) \in gate' <=> m \notin DOMAIN online'
            /\ (Left(m) \in gate' /\ WithinCooldown(m)) => mine = {}
            /\ (Left(m) \in gate' /\ mine = {}) =>
                  /\ IsSome(cooldown)
                  /\ IsSome(last_notified[m])
                  /\ last_notified'[m] = last_notified[m]
            /\ Left(m) \notin gate' => mine = {}

\* C25: a tick that evicts an entry while its device is within the cooldown
\* removes the entry all the same and hands no Left message to the
\* transport; nothing is queued, since a Left message is only ever handed
\* over by the tick that evicts its device, so that Left is never sent.
C25_SuppressedLeftIsDropped == []C25_State /\ [][C25_Step]_vars

\* A tick evicted a device that had been notified, and sent nothing.
C25_Witness ==
    \E m \in Known :
        /\ ev.type = "Clock"
        /\ Left(m) \in gate
        /\ m \notin DOMAIN online
        /\ IsSome(last_notified[m])
        /\ sent = {}

\* C27: the gate is invoked with Left for a MAC only by a tick, and only for
\* a MAC that has an online entry when the tick starts and none when it ends.
\* An Alive event of that MAC was handled before the invocation and after the
\* MAC's previous Left invocation, if there was one; every entry of the online
\* table belongs to a MAC with such an Alive event.
C27_State ==
    /\ \A m \in DOMAIN online : m \in Known /\ aliveSince[m]
    /\ \A m \in MACs :
         Left(m) \in gate =>
             /\ ev.type = "Clock"
             /\ m \in Known
             /\ m \notin DOMAIN online
             /\ ~aliveSince[m]

C27_Step ==
    \A m \in MACs :
        Left(m) \in gate' =>
            /\ ev'.type = "Clock"
            /\ m \in DOMAIN online
            /\ m \notin DOMAIN online'
            /\ m \in Known
            /\ aliveSince[m]
            /\ ~aliveSince'[m]

C27_LeftOnlyOnEviction == []C27_State /\ [][C27_Step]_vars

\* A tick has just evicted one device and invoked the gate with Left for it
\* alone, while the other device, alive since its own last Left, stays online.
C27_Witness ==
    /\ ev.type = "Clock"
    /\ gate = {Left("m1")}
    /\ "m1" \notin DOMAIN online
    /\ "m2" \in DOMAIN online
    /\ ~aliveSince["m1"]
    /\ aliveSince["m2"]

\* ---------------------------------------------------- claims on the gate
\* C7: under a configured cooldown c >= 0 and non-decreasing timestamps for a
\* device, a call returns true exactly when it is the device's first call or
\* at least c has elapsed since the device's most recent call that returned
\* true; a call that returns true records its `now`, a suppressed call leaves
\* the recorded timestamp as it was, and the recorded timestamp is always the
\* time of the most recent call that returned true.
C7_Cooldown ==
    \A d \in Known :
        (IsSome(cooldown) /\ call.dev = d /\ mono[d]) =>
            /\ call.result <=>
                 (\/ ~IsSome(call.since)
                  \/ call.now - Unwrap(call.since) >= Unwrap(cooldown))
            /\ call.before = call.since
            /\ Recorded(d) = (IF call.result THEN Some(call.now)
                                             ELSE call.before)

\* A call made exactly one cooldown of 2 after the last firing call fires.
C7_Witness ==
    \E d \in Known :
        /\ call.dev = d /\ mono[d] /\ call.result
        /\ cooldown = Some(2)
        /\ IsSome(call.since) /\ call.now - Unwrap(call.since) = 2

\* C8: with no cooldown configured every call returns true and neither
\* revision ever records a timestamp.
C8_NoCooldown ==
    cooldown = None =>
        /\ call.dev \in Known => call.result
        /\ \A d \in Known : last_notified[d] = None
        /\ DOMAIN history = {}

\* A second call for a device (its first one returned true) with no cooldown.
C8_Witness ==
    /\ cooldown = None
    /\ call.dev \in Known /\ call.result
    /\ IsSome(call.since) /\ call.now > Unwrap(call.since)

C9_Result ==
    call.dev \in Known =>
        (call.result <=>
            (\/ ~IsSome(cooldown)
             \/ ~IsSome(call.since)
             \/ call.now - Unwrap(call.since) >= Unwrap(cooldown)))

C9_Frame ==
    \A d \in Known :
        d # call'.dev =>
            /\ last_notified'[d] = last_notified[d]
            /\ history_entry(history', d) = history_entry(history, d)

\* C9: a call for one device, fired or suppressed, leaves every other
\* device's recorded timestamp as it was, and its result is decided by the
\* cooldown and the time of that same device's last firing call alone,
\* whatever calls were made for other devices in between.
C9_PerDevice == []C9_Result /\ [][C9_Frame]_vars

\* A device fires while another device is inside its cooldown.
C9_Witness ==
    \E d, o \in Known :
        /\ d # o /\ call.dev = d /\ call.result
        /\ IsSome(cooldown) /\ IsSome(Recorded(o))
        /\ call.now >= Unwrap(Recorded(o))
        /\ call.now - Unwrap(Recorded(o)) < Unwrap(cooldown)

\* C10: a device's recorded timestamp, once set, stays set and never
\* decreases, also when a call's `now` is earlier than the recorded one.
C10_Monotonic ==
    [][\A d \in Known :
          IsSome(Recorded(d)) =>
              /\ IsSome(Recorded(d)')
              /\ Unwrap(Recorded(d)') >= Unwrap(Recorded(d))]_vars

\* A call whose `now` lies before the recorded timestamp (the clock stepped
\* back) under a configured cooldown.
C10_Witness ==
    \E d \in Known :
        /\ call.dev = d /\ IsSome(cooldown)
        /\ IsSome(call.before) /\ call.now < Unwrap(call.before)

\* -------------------------------------------------- unit runs: is_between
\* The event loop at rest, for the runs that apply one function only.
TrackerIdle ==
    /\ online = << >>
    /\ last_notified = [m \in Known |-> None]
    /\ cooldown = None
    /\ resolve_r = "None"
    /\ pc = "unit"
    /\ ev = NoEvent
    /\ gate = {}
    /\ sent = {}
    /\ undelivered = {}
    /\ probes = {}
    /\ sinceAlive = [m \in Known |-> Over]
    /\ okTicks = [m \in Known |-> Later]
    /\ aliveSince = [m \in Known |-> FALSE]

\* qp.is_between(time) on the configured period, for a time of day.
is_between_call(time) ==
    /\ fn = "is_between"
    /\ input' = << time >>
    /\ output' = Some(is_between(Unwrap(quiet_period), time))
    /\ UNCHANGED << trackerVars, gateVars, last_notified, cooldown,
                    quiet_period, fn >>

InitPeriod ==
    /\ TrackerIdle
    /\ GateIdle
    /\ quiet_period \in {Some(Period(s, e)) : s \in Slots, e \in Slots}
    /\ fn = "is_between"
    /\ input = << >>
    /\ output = None

NextPeriod == \E time \in Slots : is_between_call(time)

SpecPeriod == InitPeriod /\ [][NextPeriod]_vars

\* ------------------------------------------------------- claims: Period
\* The slot of the time of day h:m.
Slot(h, m) == 2 * h + (m \div 30)
T2300 == Slot(23, 0)
T2330 == Slot(23, 30)
T0600 == Slot(6, 0)
T0700 == Slot(7, 0)

\* C11: is_between(t) is true exactly when start <= end and
\* start <= t <= end, or start > end and (t >= start or t <= end); so 23:30
\* is inside 23:00-06:00 and outside 00:00-06:00, and 07:00 is outside
\* 23:00-06:00.
C11_IsBetween ==
    (fn = "is_between" /\ IsSome(output)) =>
        LET p == Unwrap(quiet_period)
            t == input[1]
        IN  /\ Unwrap(output) <=>
                   \/ (p.start <= p.end /\ p.start <= t /\ t <= p.end)
                   \/ (p.start > p.end /\ (t >= p.start \/ t <= p.end))
            /\ (p = Period(T2300, T0600) /\ t = T2330) => Unwrap(output)
            /\ (p = Period(0, T0600) /\ t = T2330) => ~Unwrap(output)
            /\ (p = Period(T2300, T0600) /\ t = T0700) => ~Unwrap(output)

\* 23:30 has been found inside 23:00-06:00.
C11_Witness ==
    /\ fn = "is_between"
    /\ quiet_period = Some(Period(T2300, T0600))
    /\ input = << T2330 >>
    /\ output = Some(TRUE)

\* ------------------------------------------------------ unit runs: notify
\* The quiet periods notify() is applied under: none, or any period over the
\* times of day of its clock readings.
NotifyQuiet == {None} \cup {Some(Period(s, e)) : s \in Nows, e \in Nows}

\* A notify() that takes the timestamp back when the transport call fails.
notify_call_rolls_back(mac, status, now) ==
    /\ pc = "notify"
    /\ LET n == notify(last_notified, mac, status, now) IN
           /\ gate' = n.gate
           /\ sent' = n.sent
           /\ undelivered' \in SUBSET {s.mac : s \in n.sent}
           /\ last_notified' = IF mac \in undelivered'
                               THEN last_notified ELSE n.ln
    /\ call' = [dev    |-> mac,
                now    |-> now,
                result |-> IF mac \in Known
                           THEN should_notify(last_notified[mac], cooldown,
                                              now).result
                           ELSE FALSE,
                before |-> IF mac \in Known THEN last_notified[mac] ELSE None,
                since  |-> None]
    /\ UNCHANGED << online, resolve_r, pc, ev, probes, sinceAlive, okTicks,
                    aliveSince >>
    /\ UNCHANGED << impl, history, fired, lastNow, mono >>
    /\ UNCHANGED << cooldown, quiet_period, unitVars >>

\* self.notify(mac, status) with the clock reading `now`; `call` keeps what
\* the gate decided for the device.
notify_call(mac, status, now) ==
    /\ pc = "notify"
    /\ LET n == notify(last_notified, mac, status, now) IN
           /\ last_notified' = n.ln
           /\ gate' = n.gate
           /\ sent' = n.sent
           /\ undelivered' \in SUBSET {s.mac : s \in n.sent}
    /\ call' = [dev    |-> mac,
                now    |-> now,
                result |-> IF mac \in Known
                           THEN should_notify(last_notified[mac], cooldown,
                                              now).result
                           ELSE FALSE,
                before |-> IF mac \in Known THEN last_notified[mac] ELSE None,
                since  |-> None]
    /\ UNCHANGED << online, resolve_r, pc, ev, probes, sinceAlive, okTicks,
                    aliveSince >>
    /\ UNCHANGED << impl, history, fired, lastNow, mono >>
    /\ UNCHANGED << cooldown, quiet_period, unitVars >>

InitNotify ==
    /\ online = << >>
    /\ last_notified = [m \in Known |-> None]
    /\ cooldown \in Cooldowns
    /\ quiet_period \in NotifyQuiet
    /\ resolve_r = "None"
    /\ pc = "notify"
    /\ ev = NoEvent
    /\ gate = {}
    /\ sent = {}
    /\ undelivered = {}
    /\ probes = {}
    /\ sinceAlive = [m \in Known |-> Over]
    /\ okTicks = [m \in Known |-> Later]
    /\ aliveSince = [m \in Known |-> FALSE]
    /\ GateIdle
    /\ UnitIdle

NextNotify ==
    \E mac \in MACs, status \in {"Arrived", "Left"}, now \in Nows :
        notify_call(mac, status, now)

SpecNotify == InitNotify /\ [][NextNotify]_vars

\* ------------------------------------------------------- claims: notify
\* C12: when the gate decides to fire for a known device, exactly one message
\* is handed to the transport whatever the quiet period; its silent flag is
\* true iff a quiet period is configured and the time of day of the call lies
\* inside it.  When the gate does not fire, nothing is handed over.
C12_QuietOnlySilences ==
    (pc = "notify" /\ call.dev \in Known) =>
        LET t == TimeOfDay(call.now)
            inside ==
                /\ quiet_period # None
                /\ LET p == Unwrap(quiet_period) IN
                       \/ (p.start <= p.end /\ p.start <= t /\ t <= p.end)
                       \/ (p.start > p.end /\ (t >= p.start \/ t <= p.end))
        IN  /\ call.result => Cardinality(sent) = 1
            /\ ~call.result => sent = {}
            /\ \A s \in sent : s.mac = call.dev /\ (s.silent <=> inside)

\* Under a cooldown, a message has gone out silently inside the quiet period.
C12_Witness ==
    /\ pc = "notify"
    /\ IsSome(cooldown)
    /\ IsSome(quiet_period)
    /\ call.dev \in Known
    /\ call.result
    /\ \E s \in sent : s.silent

\* C26: under a configured cooldown, a call of notify() whose gate fires
\* records the time of the call as the device's last_notified whether or not
\* the transport then delivers the message: a failed send leaves the new
\* timestamp in place.  A later call for that device less than one cooldown
\* after the recorded time hands nothing to the transport and leaves every
\* timestamp alone, also when the recorded notification was never delivered.
C26_State ==
    (pc = "notify" /\ IsSome(cooldown) /\ call.dev \in Known) =>
        /\ call.result => last_notified[call.dev] = Some(call.now)
        /\ call.dev \in undelivered =>
               /\ call.result
               /\ last_notified[call.dev] = Some(call.now)

C26_Step ==
    (/\ pc = "notify"
     /\ IsSome(cooldown)
     /\ call'.dev \in Known
     /\ IsSome(last_notified[call'.dev])
     /\ call'.now >= Unwrap(last_notified[call'.dev])
     /\ call'.now - Unwrap(last_notified[call'.dev]) < Unwrap(cooldown))
    => /\ ~call'.result
       /\ sent' = {}
       /\ undelivered' = {}
       /\ last_notified' = last_notified

C26_FailedSendKeepsTimestamp == []C26_State /\ [][C26_Step]_vars

\* Under a positive cooldown the gate fired for a device that had a timestamp
\* already, the send failed, and the time of the call is recorded.
C26_Witness ==
    /\ pc = "notify"
    /\ IsSome(cooldown)
    /\ Unwrap(cooldown) > 0
    /\ call.dev \in undelivered
    /\ IsSome(call.before)
    /\ last_notified[call.dev] = Some(call.now)

\* ------------------------------------------------- network: parse_packet
BOOTPS == 67
BOOTPC == 68
Ports == {BOOTPS, BOOTPC, BOOTPC + 1}
Option(S) == {None} \cup {Some(x) : x \in S}

\* What UdpPacket::new reads from an IPv4 payload that holds a UDP header.
UdpHeaders == [source : Ports, destination : Ports]
\* What Ipv4Packet::new reads from an Ethernet payload that holds an IPv4
\* header; udp is None when the IPv4 payload is too short for a UDP header.
Ipv4Headers == [protocol : {"Udp", "Tcp"}, udp : Option(UdpHeaders)]
\* What ArpPacket::new reads from an Ethernet payload that holds an ARP body.
ArpHeaders ==
    [operation : {"Request", "Reply", "Other"}, sender_hw_addr : MACs,
     sender_proto_addr : IPs, target_proto_addr : IPs]
\* What EthernetPacket::new reads from a frame that holds an Ethernet header;
\* payload is None when it is too short for the header its ethertype names.
EthernetFrames ==
    [ethertype : {"Ipv4"}, source : MACs, payload : Option(Ipv4Headers)]
    \cup [ethertype : {"Arp"}, source : MACs, payload : Option(ArpHeaders)]
    \cup [ethertype : {"Other"}, source : MACs, payload : {None}]
\* Captured frames; None is a frame shorter than an Ethernet header.
Frames == Option(EthernetFrames)

Ignored == [type |-> "Ignored"]
Connected(mac) == [type |-> "Connected", mac |-> mac]
Alive(mac, ip) == [type |-> "Alive", mac |-> mac, ip |-> ip]
\* unwrap() of None: the calling thread panics and no event is returned.
Panic == [type |-> "panic"]

parse_ipv4_packet(ethernet) ==
    IF ~IsSome(ethernet.payload) THEN Ignored
    ELSE LET header == Unwrap(ethernet.payload) IN
         IF header.protocol = "Udp"
         THEN IF ~IsSome(header.udp) THEN Ignored
              ELSE LET udp == Unwrap(header.udp) IN
                   IF udp.source = BOOTPC /\ udp.destination = BOOTPS
                   THEN Connected(ethernet.source)
                   ELSE Ignored
         ELSE Ignored

parse_arp_packet_any_request(ethernet) ==
    IF ~IsSome(ethernet.payload) THEN Ignored
    ELSE LET header == Unwrap(ethernet.payload) IN
         IF header.operation \in {"Request", "Reply"}
         THEN Alive(header.sender_hw_addr, header.sender_proto_addr)
         ELSE Ignored

parse_arp_packet(ethernet) ==
    IF ~IsSome(ethernet.payload) THEN Ignored
    ELSE LET header == Unwrap(ethernet.payload)
             op == header.operation
         IN  IF \/ (op = "Request"
                     /\ header.sender_proto_addr = header.target_proto_addr)
                \/ op = "Reply"
             THEN Alive(header.sender_hw_addr, header.sender_proto_addr)
             ELSE Ignored

parse_packet(data) ==
    IF ~IsSome(data) THEN Panic
    ELSE LET ethernet == Unwrap(data) IN
         CASE ethernet.ethertype = "Ipv4" -> parse_ipv4_packet(ethernet)
           [] ethernet.ethertype = "Arp" -> parse_arp_packet(ethernet)
           [] OTHER -> Ignored

\* The capture thread applying parse_packet to the next captured frame.
parse_packet_call(data) ==
    /\ fn = "parse_packet"
    /\ input' = << data >>
    /\ output' = Some(parse_packet(data))
    /\ UNCHANGED << trackerVars, gateVars, last_notified, cooldown,
                    quiet_period, fn >>

InitParse ==
    /\ TrackerIdle
    /\ GateIdle
    /\ quiet_period = None
    /\ fn = "parse_packet"
    /\ input = << >>
    /\ output = None

NextParse == \E data \in Frames : parse_packet_call(data)

SpecParse == InitParse /\ [][NextParse]_vars

\* -------------------------------------------------- claims: parse_packet
\* A frame whose every header, as far as the classifier reads, is complete.
WellFormed(data) ==
    /\ IsSome(data)
    /\ LET ethernet == Unwrap(data) IN
           /\ ethernet.ethertype = "Arp" => IsSome(ethernet.payload)
           /\ ethernet.ethertype = "Ipv4" =>
                  /\ IsSome(ethernet.payload)
                  /\ Unwrap(ethernet.payload).protocol = "Udp" =>
                         IsSome(Unwrap(ethernet.payload).udp)

\* C13: parse_packet returns one event (Ignored, Connected or Alive) for
\* every captured frame, also one shorter than an Ethernet header or with a
\* truncated IPv4, UDP or ARP header, and a malformed frame yields Ignored.
C13_Total ==
    (fn = "parse_packet" /\ IsSome(output)) =>
        /\ Unwrap(output).type \in {"Ignored", "Connected", "Alive"}
        /\ ~WellFormed(input[1]) => Unwrap(output) = Ignored

\* C14: for a well-formed frame the classifier returns Connected(Ethernet
\* source) iff it is IPv4/UDP from port 68 to port 67, Alive(ARP sender MAC,
\* ARP sender IP) iff it is an ARP Reply or an ARP Request whose sender and
\* target protocol addresses are equal, and Ignored in every other case.
C14_Classifier ==
    (fn = "parse_packet" /\ IsSome(output) /\ WellFormed(input[1])) =>
        LET e == Unwrap(input[1])
            out == Unwrap(output)
            dhcp ==
                /\ e.ethertype = "Ipv4"
                /\ Unwrap(e.payload).protocol = "Udp"
                /\ Unwrap(Unwrap(e.payload).udp).source = 68
                /\ Unwrap(Unwrap(e.payload).udp).destination = 67
            arp ==
                /\ e.ethertype = "Arp"
                /\ \/ Unwrap(e.payload).operation = "Reply"
                   \/ /\ Unwrap(e.payload).operation = "Request"
                      /\ Unwrap(e.payload).sender_proto_addr
                             = Unwrap(e.payload).target_proto_addr
        IN  /\ dhcp <=> out.type = "Connected"
            /\ dhcp => out = Connected(e.source)
            /\ arp <=> out.type = "Alive"
            /\ arp => out = Alive(Unwrap(e.payload).sender_hw_addr,
                                  Unwrap(e.payload).sender_proto_addr)
            /\ (~dhcp /\ ~arp) <=> out = Ignored

\* A gratuitous ARP request whose sender is not the Ethernet source has been
\* classified Alive for the ARP sender.
C14_Witness ==
    /\ fn = "parse_packet"
    /\ IsSome(output)
    /\ WellFormed(input[1])
    /\ Unwrap(input[1]).ethertype = "Arp"
    /\ Unwrap(Unwrap(input[1]).payload).operation = "Request"
    /\ Unwrap(Unwrap(input[1]).payload).sender_hw_addr # Unwrap(input[1]).source
    /\ Unwrap(output).type = "Alive"
    /\ Unwrap(output).mac = Unwrap(Unwrap(input[1]).payload).sender_hw_addr

\* ------------------------------------------------- config: Config::from_file
UserNames == {"ann", "bob"}
ChatIds == {"chat1", "chat2"}
DeviceLists == {<< >>, << "m1" >>, << "m2" >>, << "m1", "m2" >>}
\* The [[user]] tables of a configuration file; "nobody" is a subscriber
\* name that no user declares.
Users ==
    [name : UserNames, chat_id : Option(ChatIds),
     subscriber : Option(UserNames \cup {"nobody"}), devices : DeviceLists]
UserLists == UNION {[1..n -> Users] : n \in 0..MaxUsers}

Ok(rules) == [ok |-> TRUE, rules |-> rules]
Err(kind, user, device, orig_user) ==
    [ok |-> FALSE, kind |-> kind, user |-> user, device |-> device,
     orig_user |-> orig_user]

\* users: name -> user, collected in file order (a later user of the same
\* name replaces an earlier one).
users_by_name(us) ==
    [n \in {us[i].name : i \in DOMAIN us} |->
        us[CHOOSE i \in DOMAIN us :
              /\ us[i].name = n
              /\ \A j \in DOMAIN us : us[j].name = n => j <= i]]

Metadata(user, subscriber, chat_id) ==
    [name |-> user.name, subscriber_name |-> subscriber.name,
     chat_id |-> chat_id]

RECURSIVE insert_devices_overwrites(_, _, _, _, _)
insert_devices_overwrites(rules, user, subscriber, chat_id, k) ==
    IF k > Len(user.devices) THEN Ok(rules)
    ELSE insert_devices_overwrites(
             Insert(rules, user.devices[k],
                    Metadata(user, subscriber, chat_id)),
             user, subscriber, chat_id, k + 1)

RECURSIVE insert_devices(_, _, _, _, _)
\* The inner loop of from_file, from the user's k-th device on: insert() hands
\* back the metadata the device had before, and that is an error.
insert_devices(rules, user, subscriber, chat_id, k) ==
    IF k > Len(user.devices) THEN Ok(rules)
    ELSE LET device == user.devices[k] IN
         IF device \in DOMAIN rules
         THEN Err("DuplicateDevice", user.name, device, rules[device].name)
         ELSE insert_devices(
                  Insert(rules, device, Metadata(user, subscriber, chat_id)),
                  user, subscriber, chat_id, k + 1)

RECURSIVE validate(_, _, _)
\* The outer loop of from_file, from the i-th user on.
validate(us, i, rules) ==
    IF i > Len(us) THEN Ok(rules)
    ELSE LET user == us[i]
             users == users_by_name(us)
         IN
         IF IsSome(user.subscriber)
         THEN IF user.devices = << >>
              THEN Err("NoDevices", user.name, "-", "-")
              ELSE IF Unwrap(user.subscriber) \notin DOMAIN users
              THEN Err("UnknownUser", Unwrap(user.subscriber), "-", "-")
              ELSE LET subscriber == users[Unwrap(user.subscriber)] IN
                   IF ~IsSome(subscriber.chat_id)
                   THEN Err("MissingChatId", subscriber.name, "-", "-")
                   ELSE LET r == insert_devices(rules, user, subscriber,
                                               Unwrap(subscriber.chat_id), 1)
                        IN IF r.ok THEN validate(us, i + 1, r.rules) ELSE r
         ELSE IF user.devices # << >>
              THEN Err("NoSubscriber", user.name, "-", "-")
              ELSE validate(us, i + 1, rules)

\* The rules part of Config::from_file.
from_file(us) == validate(us, 1, << >>)

from_file_call ==
    /\ fn = "from_file"
    /\ output = None
    /\ output' = Some(from_file(input[1]))
    /\ UNCHANGED << trackerVars, gateVars, last_notified, cooldown,
                    quiet_period, fn, input >>

InitConfig ==
    /\ TrackerIdle
    /\ GateIdle
    /\ quiet_period = None
    /\ fn = "from_file"
    /\ input \in {<< us >> : us \in UserLists}
    /\ output = None

NextConfig == from_file_call

SpecConfig == InitConfig /\ [][NextConfig]_vars

\* ---------------------------------------------------- claims: from_file
Listed(us, i) == {us[i].devices[k] : k \in DOMAIN us[i].devices}
HasSubscriber(u) == IsSome(u.subscriber)
Declared(us, name) == \E i \in DOMAIN us : us[i].name = name

\* The faults of a user list, by the error that names them.
FaultNoDevices(us, name) ==
    \E i \in DOMAIN us :
        us[i].name = name /\ HasSubscriber(us[i]) /\ us[i].devices = << >>
FaultNoSubscriber(us, name) ==
    \E i \in DOMAIN us :
        us[i].name = name /\ ~HasSubscriber(us[i]) /\ us[i].devices # << >>
FaultUnknownUser(us, name) ==
    /\ ~Declared(us, name)
    /\ \E i \in DOMAIN us : us[i].subscriber = Some(name)
FaultMissingChatId(us, name) ==
    /\ \E i \in DOMAIN us : us[i].subscriber = Some(name)
    /\ \E i \in DOMAIN us : us[i].name = name /\ us[i].chat_id = None
FaultDuplicateDevice(us, device, later, orig) ==
    \E i \in DOMAIN us, j \in DOMAIN us :
        /\ i < j
        /\ us[i].name = orig /\ device \in Listed(us, i)
        /\ us[j].name = later /\ device \in Listed(us, j)

\* Some fault of the claim's list is present and makes the list invalid
\* whichever user of a repeated name is meant.
Faulty(us) ==
    \/ \E n \in UserNames : FaultNoDevices(us, n) \/ FaultNoSubscriber(us, n)
    \/ \E n \in UserNames \cup {"nobody"} : FaultUnknownUser(us, n)
    \/ \E n \in UserNames :
          /\ \E i \in DOMAIN us : us[i].subscriber = Some(n)
          /\ Declared(us, n)
          /\ \A i \in DOMAIN us : us[i].name = n => us[i].chat_id = None
    \/ \E d \in Known, a \in UserNames, b \in UserNames :
          FaultDuplicateDevice(us, d, a, b)

\* C16: validation rejects, with no rules mapping, a user with a subscriber
\* and no devices (NoDevices), a user with devices and no subscriber
\* (NoSubscriber), a subscriber that is no declared user (UnknownUser), a
\* subscriber without chat_id (MissingChatId) and a MAC listed by two users
\* (DuplicateDevice with the later and the original owner); every error
\* names a fault that is present; on success every listed MAC maps to its
\* owner's metadata with the chat id of the owner's subscriber.
C16_Validation ==
    (fn = "from_file" /\ IsSome(output)) =>
        LET us == input[1]
            r == Unwrap(output)
        IN  /\ Faulty(us) => ~r.ok
            /\ ~r.ok =>
                  /\ "rules" \notin DOMAIN r
                  /\ r.kind = "NoDevices" => FaultNoDevices(us, r.user)
                  /\ r.kind = "NoSubscriber" => FaultNoSubscriber(us, r.user)
                  /\ r.kind = "UnknownUser" => FaultUnknownUser(us, r.user)
                  /\ r.kind = "MissingChatId" =>
                         FaultMissingChatId(us, r.user)
                  /\ r.kind = "DuplicateDevice" =>
                         FaultDuplicateDevice(us, r.device, r.user,
                                              r.orig_user)
                  /\ r.kind \in {"NoDevices", "NoSubscriber", "UnknownUser",
                                 "MissingChatId", "DuplicateDevice"}
            /\ r.ok =>
                  /\ ~Faulty(us)
                  /\ DOMAIN r.rules = UNION {Listed(us, i) : i \in DOMAIN us}
                  /\ \A i \in DOMAIN us : \A d \in Listed(us, i) :
                        /\ r.rules[d].name = us[i].name
                        /\ Some(r.rules[d].subscriber_name) = us[i].subscriber
                        /\ \E j \in DOMAIN us :
                              /\ Some(us[j].name) = us[i].subscriber
                              /\ us[j].chat_id = Some(r.rules[d].chat_id)

\* Two users listed the same MAC and the error names the later one as user
\* and the earlier one as orig_user.
C16_Witness ==
    /\ fn = "from_file"
    /\ IsSome(output)
    /\ ~Unwrap(output).ok
    /\ Unwrap(output).kind = "DuplicateDevice"
    /\ Unwrap(output).user = "bob"
    /\ Unwrap(output).orig_user = "ann"
    /\ input[1][1].name = "ann"

\* ------------------------------------------------------------ MacAddress
\* A MacAddress holds OCTETS bytes.
OCTETS == 6
\* Strings are sequences of one-character strings.
Upper == << "0", "1", "2", "3", "4", "5", "6", "7", "8", "9",
            "A", "B", "C", "D", "E", "F" >>
Lower == << "0", "1", "2", "3", "4", "5", "6", "7", "8", "9",
            "a", "b", "c", "d", "e", "f" >>
IsHexDigit(c) == \E i \in DOMAIN Upper : Upper[i] = c \/ Lower[i] = c
\* char::to_digit(16).
to_digit(c) == (CHOOSE i \in DOMAIN Upper : Upper[i] = c \/ Lower[i] = c) - 1

\* The components of a text between its ':' separators, from position i on,
\* `cur` being the component read so far.
RECURSIVE split_from(_, _, _)
split_from(value, i, cur) ==
    IF i > Len(value) THEN << cur >>
    ELSE IF value[i] = ":" THEN << cur >> \o split_from(value, i + 1, << >>)
    ELSE split_from(value, i + 1, Append(cur, value[i]))

\* value.split(':').
split(value) == split_from(value, 1, << >>)

\* The digits of u8::from_str_radix(_, 16), from position i on, `acc` being
\* the value read so far: None for a character that is no digit or a value
\* beyond a byte.
RECURSIVE digits_from(_, _, _)
digits_from(src, i, acc) ==
    IF i > Len(src) THEN Some(acc)
    ELSE IF ~IsHexDigit(src[i]) THEN None
    ELSE LET n == acc * 16 + to_digit(src[i]) IN
         IF n > 255 THEN None ELSE digits_from(src, i + 1, n)

\* u8::from_str_radix(src, 16) as an Option: the text is a non-empty run of
\* hexadecimal digits, after one optional '+', that fits a byte.
from_str_radix(src) ==
    IF src = << >> THEN None
    ELSE LET digits == IF src[1] = "+" THEN Tail(src) ELSE src IN
         IF digits = << >> THEN None ELSE digits_from(digits, 1, 0)

InvalidMacAddress(value) ==
    [ok |-> FALSE, error |-> "InvalidMacAddress", value |-> value]
OkMac(octets) == [ok |-> TRUE, mac |-> octets]

try_from_ignores_rest(value) ==
    LET nums == split(value) IN
    IF \E k \in 1..OCTETS :
           k > Len(nums) \/ ~IsSome(from_str_radix(nums[k]))
    THEN InvalidMacAddress(value)
    ELSE OkMac([k \in 1..OCTETS |-> Unwrap(from_str_radix(nums[k]))])

\* MacAddress::try_from(&str).
try_from(value) ==
    LET nums == split(value) IN
    IF \E k \in 1..OCTETS :
           k > Len(nums) \/ ~IsSome(from_str_radix(nums[k]))
    THEN InvalidMacAddress(value)
    ELSE IF Len(nums) > OCTETS THEN InvalidMacAddress(value)
    ELSE OkMac([k \in 1..OCTETS |-> Unwrap(from_str_radix(nums[k]))])

\* {:02X} of one byte.
hex02(n) == << Upper[(n \div 16) + 1], Upper[(n % 16) + 1] >>

RECURSIVE fmt_from(_, _)
fmt_from(mac, k) ==
    IF k = Len(mac) THEN hex02(mac[k])
    ELSE hex02(mac[k]) \o << ":" >> \o fmt_from(mac, k + 1)

\* Display for MacAddress.
fmt(mac) == fmt_from(mac, 1)

\* The components the texts are made of: empty, two upper-case digits, one
\* signed lower-case digit, no hexadecimal number, and more than a byte.
Components ==
    {<< >>, << "0", "A" >>, << "+", "f" >>, << "G", "0" >>,
     << "1", "F", "F" >>}
RECURSIVE join(_, _)
join(comps, k) ==
    IF k = Len(comps) THEN comps[k]
    ELSE comps[k] \o << ":" >> \o join(comps, k + 1)
\* Texts of one to OCTETS + 1 components.
Texts ==
    {join(comps, 1) :
        comps \in UNION {[1..n -> Components] : n \in 1..(OCTETS + 1)}}
Addresses == [1..OCTETS -> {0, 10, 255}]

try_from_call ==
    /\ fn = "try_from"
    /\ output = None
    /\ output' = Some(try_from(input[1]))
    /\ UNCHANGED << trackerVars, gateVars, last_notified, cooldown,
                    quiet_period, fn, input >>

fmt_call ==
    /\ fn = "fmt"
    /\ output = None
    /\ output' = Some(fmt(input[1]))
    /\ UNCHANGED << trackerVars, gateVars, last_notified, cooldown,
                    quiet_period, fn, input >>

InitMac ==
    /\ TrackerIdle
    /\ GateIdle
    /\ quiet_period = None
    /\ output = None
    /\ \/ fn = "try_from" /\ input \in {<< t >> : t \in Texts}
       \/ fn = "fmt" /\ input \in {<< m >> : m \in Addresses}

NextMac == try_from_call \/ fmt_call

SpecMac == InitMac /\ [][NextMac]_vars

\* --------------------------------------------------- claims: MacAddress
\* Six upper-case two-digit octets joined by ':'.
Canonical(text) ==
    /\ Len(text) = 3 * OCTETS - 1
    /\ \A i \in DOMAIN text :
          IF i % 3 = 0 THEN text[i] = ":"
          ELSE \E d \in DOMAIN Upper : Upper[d] = text[i]

\* C17: try_from accepts a text exactly when its ':'-separated components
\* are six and each parses as a hexadecimal byte, and returns
\* InvalidMacAddress otherwise; parsing the displayed form of an address
\* returns the address, and displaying the parse of a canonical text returns
\* the text.
C17_ParseDisplay ==
    /\ (fn = "try_from" /\ IsSome(output)) =>
          LET text == input[1]
              r == Unwrap(output)
              nums == split(text)
          IN  /\ r.ok <=> /\ Len(nums) = 6
                          /\ \A k \in DOMAIN nums : IsSome(from_str_radix(nums[k]))
              /\ ~r.ok => (r.error = "InvalidMacAddress" /\ r.value = text)
              /\ r.ok => /\ Len(r.mac) = 6
                         /\ \A k \in 1..6 : r.mac[k] \in 0..255
                         /\ try_from(fmt(r.mac)) = OkMac(r.mac)
              /\ Canonical(text) => (r.ok /\ fmt(r.mac) = text)
    /\ (fn = "fmt" /\ IsSome(output)) =>
          /\ Canonical(Unwrap(output))
          /\ try_from(Unwrap(output)) = OkMac(input[1])

\* A canonical text has been parsed.
C17_Witness ==
    /\ fn = "try_from"
    /\ IsSome(output)
    /\ Canonical(input[1])
    /\ Unwrap(output).ok
    /\ Unwrap(output).mac[1] = 10

====
